---- MODULE Spec2Model ----
(***************************************************************************)
(* homebridge-tuolife: the platform (src/src/platform.ts) that mirrors the *)
(* bulbs of a cloud account as accessories of the host, and the accessory  *)
(* handler (TuoLifeBulbAccessory) that relays the user's commands.         *)
(*                                                                         *)
(* The repository holds two versions of the handler class:                 *)
(*   "bulb"    src/src/tuolifebulb.ts  keeps its own record this.bulb      *)
(*   "context" src/unnamed/part_000    reads and writes accessory.context  *)
(* The variable impl says which of the two the build links; it is fixed in *)
(* Init and both are explored.                                             *)
(*                                                                         *)
(* Node runs the platform on one thread: a handler runs to its first await *)
(* without interruption; the only suspension points are the listing fetch  *)
(* and the POST of a command.  Each action below is one such uninterrupted *)
(* run.                                                                    *)
(***************************************************************************)
EXTENDS Integers, Sequences, FiniteSets, TLC

VARIABLES
    impl,                   \* which TuoLifeBulbAccessory the build links
    phase,                  \* "loading" (host restores its cache) | "launched"
    toRestore,              \* cached accessories the host has not yet handed to configureAccessory
    accessories,            \* platform.ts:17 keys of the Map, in insertion order
    ctx,                    \* uuid -> accessory.context.device of the accessory object with that uuid
    handler,                \* uuid -> the TuoLifeBulbAccessory whose handlers serve the accessory
    registered,             \* uuid -> number of accessories with that uuid the host holds
    discoveredCacheUUIDs,   \* platform.ts:18
    isDiscoveryInProgress,  \* platform.ts:20
    discPc,                 \* discoverDevices: "idle" | "fetching" | "done"
    syncInFlight,           \* syncBulbsWithServer calls awaiting their fetch
    polls,                  \* timer firings so far
    calls,                  \* direct calls of registerDevices (SpecReconcile only)
    commands,               \* setOn / setBrightness calls so far
    sends,                  \* POSTs issued by sendBulbUpdateToServer so far
    sendsPending,           \* POSTs not yet settled
    sendsFailed,            \* POSTs that settled with an error
    lastPayload,            \* body of the latest POST
    lastOp,                 \* the latest pass or command: what ran, on what, and what it did
    fetch                   \* one call of getDevicesAndStatesFromServer: the response and what it returned (SpecFetch only)

vars == <<impl, phase, toRestore, accessories, ctx, handler, registered,
          discoveredCacheUUIDs, isDiscoveryInProgress, discPc, syncInFlight,
          polls, calls, commands, sends, sendsPending, sendsFailed, lastPayload,
          lastOp, fetch>>

(***************************************************************************)
(* Bounds of the exploration.                                              *)
(***************************************************************************)
MaxDevices  == 2    \* longest fetched device list
MaxPolls    == 1    \* timer firings explored
MaxCommands == 1    \* user commands explored
MaxCalls    == 2    \* direct registerDevices calls explored (SpecReconcile)
MaxRooms    == 2    \* longest array of rooms in a response (SpecFetch)
MaxRoomDevices == 1 \* longest devices array of a room (SpecFetch)

(***************************************************************************)
(* Data: types.ts                                                          *)
(***************************************************************************)
ModeOff == "off"        \* deviceModes.off
ModeOn  == "calm5"      \* deviceModes.on

OffBrightness == 5          \* brightness sent when turning off
DefaultViolet == 100        \* this.bulb.violet default of the "bulb" handler

Undefined   == "undefined"              \* the value of a missing property
BulbIds     == {"b1", "b2"}
BulbIdVals  == BulbIds \cup {""}        \* "" : a device without identity
Levels      == {80}                     \* brightness the cloud reports
CachedLevels == {50}                    \* brightness a cached context holds
UserLevels  == {30}                     \* brightness the user sets
Modes       == {ModeOff, ModeOn}

\* api.hap.uuid.generate: a deterministic hash of the string
UuidGenerate(bulbId) ==
    CASE bulbId = "b1" -> "U1"
      [] bulbId = "b2" -> "U2"
      [] OTHER         -> "U0"

Uuids == {UuidGenerate(b) : b \in BulbIdVals}

\* A TuoLifeBulbDevice (types.ts:13-29) as fetched in this poll
FetchedDevice(b, br, m) ==
    [bulbId |-> b, nickname |-> "Lamp", groupId |-> "g1", modeId |-> m,
     brightness |-> br, red |-> 10, green |-> 20, blue |-> 30, violet |-> 40,
     whiteColor |-> 50, on |-> "unset"]

\* The device a cached accessory carries in its context: stored by an earlier run
CachedDevice(b, br, m) ==
    [bulbId |-> b, nickname |-> "Old", groupId |-> "g0", modeId |-> m,
     brightness |-> br, red |-> 1, green |-> 2, blue |-> 3, violet |-> 4,
     whiteColor |-> 5, on |-> "unset"]

FetchedDevices ==
    {FetchedDevice(b, br, m) : b \in BulbIds, br \in Levels, m \in Modes}
        \cup {FetchedDevice("", 80, ModeOn), FetchedDevice(Undefined, 80, ModeOn)}

DeviceLists == UNION {[1..n -> FetchedDevices] : n \in 0..MaxDevices}

NoContext == [absent |-> TRUE]
NoHandler == [kind |-> "none"]
NoPayload == [absent |-> TRUE]
NoOp      == [op |-> "none"]

BoolStr(b) == IF b THEN "true" ELSE "false"

UuidsOf(devices) ==
    {UuidGenerate(devices[i].bulbId) : i \in 1..Len(devices)}

InMap(u) == \E i \in 1..Len(accessories) : accessories[i] = u


(***************************************************************************)
(* The fetcher: getDevicesAndStatesFromServer (platform.ts:161-191) and    *)
(* its helpers mapDevice, extractDevicesFromRoom, getAllDevicesFromRooms.  *)
(*                                                                         *)
(* A response is what the GET produces: the fetch rejects, the body is not *)
(* JSON, or the body is a JSON value.  A raw device is a JSON object whose *)
(* fields may be missing (has) or hold a falsy value, or the value null.   *)
(***************************************************************************)
RawFields == {"bulb_ID", "groupId", "nickname", "modeId", "generation",
              "userId", "deviceId", "firmwareVersion", "isAvailable",
              "brightness", "red", "green", "blue", "violet", "whiteColor"}

\* a device object whose present fields hold truthy values
TruthyRaw(has) ==
    [null |-> FALSE, has |-> has, bulb_ID |-> "b1", groupId |-> "g1",
     nickname |-> "Lamp", modeId |-> "calm5", generation |-> 2,
     userId |-> "u1", deviceId |-> "d1", firmwareVersion |-> "1.0",
     isAvailable |-> TRUE, brightness |-> 80, red |-> 10, green |-> 20,
     blue |-> 30, violet |-> 40, whiteColor |-> 50]

\* a device object whose present fields hold falsy values
FalsyRaw(has) ==
    [null |-> FALSE, has |-> has, bulb_ID |-> "", groupId |-> "",
     nickname |-> "", modeId |-> "", generation |-> 0,
     userId |-> "", deviceId |-> "", firmwareVersion |-> "",
     isAvailable |-> FALSE, brightness |-> 0, red |-> 0, green |-> 0,
     blue |-> 0, violet |-> 0, whiteColor |-> 0]

NullRaw == [null |-> TRUE]      \* null in a devices array

\* every field present, every field but bulb_ID, no field
RawHas == {RawFields, RawFields \ {"bulb_ID"}, {}}

RawDevices == {TruthyRaw(h) : h \in RawHas} \cup {FalsyRaw(RawFields), NullRaw}

\* device.f, no default
Prop(device, f, value) == IF f \in device.has THEN value ELSE Undefined

\* device.f || dflt, for a string, a number and a boolean
OrStr(device, f, value, dflt) ==
    IF f \in device.has /\ value # "" THEN value ELSE dflt
OrNum(device, f, value, dflt) ==
    IF f \in device.has /\ value # 0 THEN value ELSE dflt
OrBool(device, f, value, dflt) ==
    IF f \in device.has /\ value THEN value ELSE dflt

\* mapDevice (platform.ts:246-268), device an object
MapDevice(device) ==
    [bulbId          |-> Prop(device, "bulb_ID", device.bulb_ID),
     groupId         |-> Prop(device, "groupId", device.groupId),
     nickname        |-> Prop(device, "nickname", device.nickname),
     modeId          |-> OrStr(device, "modeId", device.modeId, "off"),
     generation      |-> OrNum(device, "generation", device.generation, 1),
     userId          |-> OrStr(device, "userId", device.userId, ""),
     deviceId        |-> OrStr(device, "deviceId", device.deviceId, ""),
     firmwareVersion |-> OrStr(device, "firmwareVersion", device.firmwareVersion, ""),
     isAvailable     |-> OrBool(device, "isAvailable", device.isAvailable, FALSE),
     brightness      |-> OrNum(device, "brightness", device.brightness, 0),
     red             |-> OrNum(device, "red", device.red, 0),
     green           |-> OrNum(device, "green", device.green, 0),
     blue            |-> OrNum(device, "blue", device.blue, 0),
     violet          |-> OrNum(device, "violet", device.violet, 0),
     whiteColor      |-> OrNum(device, "whiteColor", device.whiteColor, 0)]

\* A room: null, or an object whose devices is missing, not an array, or an array
NullRoom == [null |-> TRUE]
Room(devKind, items) == [null |-> FALSE, devKind |-> devKind, items |-> items]

RawDeviceLists == UNION {[1..n -> RawDevices] : n \in 0..MaxRoomDevices}

Rooms == {NullRoom, Room("absent", <<>>), Room("object", <<>>)}
             \cup {Room("array", items) : items \in RawDeviceLists}

\* What a piece of the try block yields: a value, or an exception thrown
Value(devices)  == [thrown |-> FALSE, devices |-> devices]
Thrown          == [thrown |-> TRUE, devices |-> <<>>]

\* extractDevicesFromRoom (platform.ts:271-276): reading a property of null throws
ExtractDevicesFromRoom(room) ==
    IF room.null THEN Thrown
    ELSE IF room.devKind # "array" THEN Value(<<>>)
    ELSE IF \E i \in 1..Len(room.items) : room.items[i].null THEN Thrown
    ELSE Value([i \in 1..Len(room.items) |-> MapDevice(room.items[i])])

\* getAllDevicesFromRooms (platform.ts:279-284): the reduce over the rooms
RECURSIVE GetAllDevicesFromRooms(_, _, _)
GetAllDevicesFromRooms(rooms, i, acc) ==
    IF i > Len(rooms) THEN Value(acc)
    ELSE LET r == ExtractDevicesFromRoom(rooms[i])
         IN  IF r.thrown THEN Thrown
             ELSE GetAllDevicesFromRooms(rooms, i + 1, acc \o r.devices)

NetworkError == [kind |-> "networkError"]                   \* fetch rejects
BadJson      == [kind |-> "badJson"]                        \* response.json() rejects
JsonOther(shape) == [kind |-> "json", isArray |-> FALSE, shape |-> shape]
JsonArray(rooms) == [kind |-> "json", isArray |-> TRUE, rooms |-> rooms]

Responses ==
    {NetworkError, BadJson, JsonOther("object"), JsonOther("null")}
        \cup {JsonArray(rooms) : rooms \in UNION {[1..n -> Rooms] : n \in 0..MaxRooms}}

\* a fetcher that treats any JSON value as the array of rooms
TryBlock_NoArrayCheck(response) ==
    IF response.kind # "json" THEN [thrown |-> TRUE, devices |-> <<>>, errors |-> 0]
    ELSE IF ~response.isArray THEN [thrown |-> TRUE, devices |-> <<>>, errors |-> 0]
    ELSE LET r == GetAllDevicesFromRooms(response.rooms, 1, <<>>)
         IN  [thrown |-> r.thrown, devices |-> r.devices, errors |-> 0]

\* The try block (platform.ts:162-186): errors counts its calls of log.error
TryBlock(response) ==
    IF response.kind # "json" THEN [thrown |-> TRUE, devices |-> <<>>, errors |-> 0]
    ELSE IF ~response.isArray THEN [thrown |-> FALSE, devices |-> <<>>, errors |-> 2]
    ELSE LET r == GetAllDevicesFromRooms(response.rooms, 1, <<>>)
         IN  [thrown |-> r.thrown, devices |-> r.devices, errors |-> 0]

\* a fetcher without the catch clause
GetDevicesAndStatesFromServer_NoCatch(response) ==
    LET t == TryBlock(response)
    IN  [devices |-> t.devices, errors |-> t.errors, propagated |-> t.thrown]

\* getDevicesAndStatesFromServer (platform.ts:161-191): the catch clause logs
\* one error and returns []
GetDevicesAndStatesFromServer(response) ==
    LET t == TryBlock(response)
    IN  IF t.thrown
        THEN [devices |-> <<>>, errors |-> t.errors + 1, propagated |-> FALSE]
        ELSE [devices |-> t.devices, errors |-> t.errors, propagated |-> FALSE]

NoFetch == [pc |-> "idle"]

(***************************************************************************)
(* TuoLifeBulbAccessory: constructor, getOn and the command payload        *)
(***************************************************************************)
\* new TuoLifeBulbAccessory(platform, accessory), c the accessory's context.device.
\* "bulb": this.bulb gets the defaults, then brightness and groupId of the context;
\* "context": the object keeps no state of its own.
NewHandler(im, c) ==
    IF im = "bulb"
    THEN [kind |-> "bulb", brightness |-> c.brightness, modeId |-> ModeOff,
          nickname |-> "", groupId |-> c.groupId, bulbId |-> "",
          red |-> 0, green |-> 0, blue |-> 0, violet |-> DefaultViolet,
          whiteColor |-> 0]
    ELSE [kind |-> "context"]

\* The record the handler's getters read: this.bulb, or accessory.context.device
LocalFields(h, c) == IF h.kind = "bulb" THEN h ELSE c

\* getOn(): modeId !== deviceModes.off on the handler's local record
GetOn(h, c) == LocalFields(h, c).modeId # ModeOff

\* setOn: value ? deviceModes.on : deviceModes.off
SetOnModeId(value) == IF value THEN ModeOn ELSE ModeOff

\* a setOn that sends the current brightness whatever the value
SetOnBrightness_Current(value, current) == current

\* setOn: value ? Number(brightness) : 5
SetOnBrightness(value, current) == IF value THEN current ELSE OffBrightness

\* setBrightness: modeId of the snapshot sent upstream
SetBrightnessModeId == ModeOn

\* sendBulbUpdateToServer: the JSON body built from the snapshot aBulb
Payload(f, m, br) ==
    [groupId |-> f.groupId, modeId |-> m, brightness |-> br, red |-> f.red,
     green |-> f.green, blue |-> f.blue, violet |-> f.violet,
     whiteColor |-> f.whiteColor]

(***************************************************************************)
(* What the host and the handler see of an accessory                       *)
(***************************************************************************)
HasHandler(u)      == handler[u] # NoHandler
HostReadsOn(u)     == GetOn(handler[u], ctx[u])
LocalModeId(u)     == LocalFields(handler[u], ctx[u]).modeId
LocalBrightness(u) == LocalFields(handler[u], ctx[u]).brightness

(***************************************************************************)
(* registerDevices (platform.ts:87-159) as a fold over the fetched list.   *)
(* s = [ctx, handler, registered, disc, events, derived, built, posts,     *)
(* thrown]; events lists what the pass did, in order; derived the bulbIds  *)
(* it handed to uuid.generate; built the accessories it constructed a new  *)
(* TuoLifeBulbAccessory for; posts the POSTs it caused; thrown whether its *)
(* loop ended in an exception.                                             *)
(***************************************************************************)
SeqHas(q, x) == \E i \in 1..Len(q) : q[i] = x

\* a constructor that pushes brightness and power with setCharacteristic, which
\* runs the set handlers of the two characteristics
PushSetCalls_SetCharacteristic(im) == 2

\* The set handlers the constructor causes to run when it pushes the state to
\* the host: "context" pushes with updateCharacteristic (part_000:73-76), which
\* runs no handler; "bulb" pushes nothing
PushSetCalls(im) == 0

\* new TuoLifeBulbAccessory(this, accessory) as a step of a pass
Construct(s, u, im) ==
    [s EXCEPT !.built = Append(@, u), !.posts = @ + PushSetCalls(im)]

\* an update that stores the fetched device as the context
UpdatedContext_Replace(c, d) == d

\* lines 111-112, 206-207: brightness and on are written into context.device;
\* its other fields are left as they are
UpdatedContext(c, d) ==
    [c EXCEPT !.brightness = d.brightness, !.on = BoolStr(d.modeId # ModeOff)]

\* an update that leaves the brightness the accessory holds
UpdateExisting_KeepLocal(s, d, u, im) ==
    LET c2 == [s.ctx[u] EXCEPT !.on = BoolStr(d.modeId # ModeOff)]
    IN  Construct([s EXCEPT !.ctx[u] = c2,
                            !.handler[u] = NewHandler(im, c2),
                            !.events = Append(@, <<"update", u>>)], u, im)

\* lines 106-120: the accessory is in this.accessories
UpdateExisting(s, d, u, im) ==
    LET c2 == UpdatedContext(s.ctx[u], d)
    IN  Construct([s EXCEPT !.ctx[u] = c2,
                            !.handler[u] = NewHandler(im, c2),
                            !.events = Append(@, <<"update", u>>)], u, im)

\* lines 126-143: a new accessory is created and handed to the host; it is not
\* put into this.accessories.  When the host already holds an accessory with
\* this uuid it keeps serving that one; the call is counted all the same.
CreateAndRegister(s, d, u, im) ==
    Construct([s EXCEPT !.ctx[u] = IF s.registered[u] > 0 THEN @ ELSE d,
                        !.handler[u] = IF s.registered[u] > 0 THEN @ ELSE NewHandler(im, d),
                        !.registered[u] = @ + 1,
                        !.events = Append(@, <<"create", u>>)], u, im)

\* !device.bulbId (platform.ts:94): the bulbId is missing or empty
NoBulbId(d) == d.bulbId = Undefined \/ d.bulbId = ""

\* a conversion that wraps the string in quotes
BulbIdToString_Quoted(bulbId) == "'" \o bulbId \o "'"

\* device.bulbId.toString() (platform.ts:100): String.prototype.toString returns
\* the string itself
BulbIdToString(bulbId) == bulbId

\* lines 90-147: one iteration of the loop over the devices
RegisterOne(s, d, accs, im) ==
    IF NoBulbId(d)
    THEN s
    ELSE LET u  == UuidGenerate(BulbIdToString(d.bulbId))
             s1 == [s EXCEPT !.derived = Append(@, BulbIdToString(d.bulbId))]
             s2 == IF SeqHas(accs, u) THEN UpdateExisting(s1, d, u, im)
                                      ELSE CreateAndRegister(s1, d, u, im)
         IN  [s2 EXCEPT !.disc = Append(@, u)]

RECURSIVE RegisterLoop(_, _, _, _, _)
RegisterLoop(s, devices, i, accs, im) ==
    IF i > Len(devices) THEN s
    ELSE RegisterLoop(RegisterOne(s, devices[i], accs, im), devices, i + 1, accs, im)

\* a removal loop that unregisters nothing
RemoveOne_Keep(s, u) == s

\* lines 152-157: unregister what was not discovered; the Map keeps its entry
RemoveOne(s, u) ==
    IF SeqHas(s.disc, u)
    THEN s
    ELSE [s EXCEPT !.registered[u] = 0,
                   !.events = Append(@, <<"unregister", u>>)]

RECURSIVE RemoveLoop(_, _, _)
RemoveLoop(s, accs, i) ==
    IF i > Len(accs) THEN s
    ELSE RemoveLoop(RemoveOne(s, accs[i]), accs, i + 1)

\* the state a pass starts from
PassStart ==
    [ctx |-> ctx, handler |-> handler, registered |-> registered,
     disc |-> discoveredCacheUUIDs, events |-> <<>>, derived |-> <<>>,
     built |-> <<>>, posts |-> 0, thrown |-> FALSE]

\* what a pass leaves in lastOp
PassRecord(opName, devices, s) ==
    [op |-> opName, devices |-> devices, events |-> s.events,
     derived |-> s.derived, built |-> s.built, thrown |-> s.thrown]

\* a registerDevices that runs its removal loop first
RegisterDevicesResult_RemoveFirst(devices) ==
    LET s0 == PassStart
    IN  RegisterLoop(RemoveLoop(s0, accessories, 1), devices, 1, accessories, impl)

RegisterDevicesResult(devices) ==
    LET s0 == PassStart
    IN  RemoveLoop(RegisterLoop(s0, devices, 1, accessories, impl), accessories, 1)

\* registerDevices(devices), run from start to end
RegisterDevices(devices, opName) ==
    LET s == RegisterDevicesResult(devices)
    IN  /\ ctx' = s.ctx
        /\ handler' = s.handler
        /\ registered' = s.registered
        /\ discoveredCacheUUIDs' = s.disc
        /\ sends' = sends + s.posts
        /\ sendsPending' = sendsPending + s.posts
        /\ lastOp' = PassRecord(opName, devices, s)

(***************************************************************************)
(* syncBulbsWithServer (platform.ts:194-217): the loop after the fetch     *)
(***************************************************************************)
\* lines 201-212: one iteration.  uuid.generate is called on device.bulbId as it
\* is; it hashes its argument with crypto's Hash.update, which throws a
\* TypeError when the argument is undefined
SyncOne(s, d, accs, im) ==
    LET u  == UuidGenerate(d.bulbId)
        s1 == [s EXCEPT !.derived = Append(@, d.bulbId)]
    IN  IF d.bulbId = Undefined THEN [s1 EXCEPT !.thrown = TRUE]
        ELSE IF SeqHas(accs, u) THEN UpdateExisting(s1, d, u, im)
        ELSE s1

\* lines 200-216: the exception leaves the loop and is caught and logged
RECURSIVE SyncLoop(_, _, _, _, _)
SyncLoop(s, devices, i, accs, im) ==
    IF i > Len(devices) \/ s.thrown THEN s
    ELSE SyncLoop(SyncOne(s, devices[i], accs, im), devices, i + 1, accs, im)

SyncResult(devices) ==
    LET s0 == PassStart
    IN  SyncLoop(s0, devices, 1, accessories, impl)


(***************************************************************************)
(* Initial state: the platform object is constructed (platform.ts:23-54);  *)
(* the host holds the accessories it cached in an earlier run and has not  *)
(* yet handed them to configureAccessory.                                  *)
(***************************************************************************)
CachedContexts(u) ==
    {CachedDevice(b, br, m) : b \in {x \in BulbIds : UuidGenerate(x) = u},
                              br \in CachedLevels, m \in Modes}

Init ==
    /\ impl \in {"bulb", "context"}
    /\ phase = "loading"
    /\ ctx \in [Uuids -> {NoContext} \cup UNION {CachedContexts(u) : u \in Uuids}]
    /\ \A u \in Uuids : ctx[u] # NoContext => ctx[u] \in CachedContexts(u)
    /\ toRestore = {u \in Uuids : ctx[u] # NoContext}
    /\ registered = [u \in Uuids |-> IF ctx[u] # NoContext THEN 1 ELSE 0]
    /\ accessories = <<>>
    /\ handler = [u \in Uuids |-> NoHandler]
    /\ discoveredCacheUUIDs = <<>>
    /\ isDiscoveryInProgress = FALSE
    /\ discPc = "idle"
    /\ syncInFlight = 0
    /\ polls = 0
    /\ calls = 0
    /\ commands = 0
    /\ sends = 0
    /\ sendsPending = 0
    /\ sendsFailed = 0
    /\ lastPayload = NoPayload
    /\ lastOp = NoOp
    /\ fetch = NoFetch

(***************************************************************************)
(* Platform                                                                *)
(***************************************************************************)
\* configureAccessory (platform.ts:60-67): this.accessories.set(UUID, accessory)
ConfigureAccessory(u) ==
    /\ phase = "loading"
    /\ u \in toRestore
    /\ toRestore' = toRestore \ {u}
    /\ accessories' = IF InMap(u) THEN accessories ELSE Append(accessories, u)
    /\ UNCHANGED <<sendsFailed, fetch, impl, phase, ctx, handler, registered, discoveredCacheUUIDs,
                   isDiscoveryInProgress, discPc, syncInFlight, polls, calls,
                   commands, sends, sendsPending, lastPayload, lastOp>>

\* discoverDevices (platform.ts:74-86) up to the fetch it starts
DiscoverDevices ==
    IF isDiscoveryInProgress
    THEN UNCHANGED <<isDiscoveryInProgress, discPc>>
    ELSE /\ isDiscoveryInProgress' = TRUE
         /\ discPc' = "fetching"

\* 'didFinishLaunching' (platform.ts:49-53): the cache is restored; discovery starts
DidFinishLaunching ==
    /\ phase = "loading"
    /\ toRestore = {}
    /\ phase' = "launched"
    /\ DiscoverDevices
    /\ UNCHANGED <<sendsFailed, fetch, impl, toRestore, accessories, ctx, handler, registered,
                   discoveredCacheUUIDs, syncInFlight, polls, calls, commands,
                   sends, sendsPending, lastPayload, lastOp>>

\* The fetch of discoverDevices resolves with devices (the empty list when the
\* fetch failed) and the then-callback runs registerDevices (platform.ts:82-84)
DiscoverResolves(devices) ==
    /\ discPc = "fetching"
    /\ discPc' = "done"
    /\ RegisterDevices(devices, "discover")
    /\ UNCHANGED <<sendsFailed, fetch, impl, phase, toRestore, accessories, isDiscoveryInProgress,
                   syncInFlight, polls, calls, commands, lastPayload>>

\* setInterval(() => this.syncBulbsWithServer(), 5000) (platform.ts:30): the timer
\* fires and syncBulbsWithServer runs up to its await (platform.ts:197)
TimerFires ==
    /\ polls < MaxPolls
    /\ polls' = polls + 1
    /\ syncInFlight' = syncInFlight + 1
    /\ UNCHANGED <<sendsFailed, fetch, impl, phase, toRestore, accessories, ctx, handler, registered,
                   discoveredCacheUUIDs, isDiscoveryInProgress, discPc, calls,
                   commands, sends, sendsPending, lastPayload, lastOp>>

\* The fetch of one syncBulbsWithServer resolves and its loop runs (platform.ts:200-213)
SyncResolves(devices) ==
    /\ syncInFlight > 0
    /\ syncInFlight' = syncInFlight - 1
    /\ LET s == SyncResult(devices)
       IN  /\ ctx' = s.ctx
           /\ handler' = s.handler
           /\ sends' = sends + s.posts
           /\ sendsPending' = sendsPending + s.posts
           /\ lastOp' = PassRecord("sync", devices, s)
    /\ UNCHANGED <<sendsFailed, fetch, impl, phase, toRestore, accessories, registered,
                   discoveredCacheUUIDs, isDiscoveryInProgress, discPc, polls,
                   calls, commands, lastPayload>>

(***************************************************************************)
(* Commands: the host calls the handlers of an accessory it serves         *)
(***************************************************************************)
\* sendBulbUpdateToServer (platform.ts:224-243): the POST is started, not awaited
SendBulbUpdateToServer(body) ==
    /\ lastPayload' = body
    /\ sends' = sends + 1
    /\ sendsPending' = sendsPending + 1

\* setOn(value) (tuolifebulb.ts:88-131, part_000:93-136)
SetOn(u, value) ==
    /\ commands < MaxCommands
    /\ registered[u] > 0
    /\ HasHandler(u)
    /\ commands' = commands + 1
    /\ LET f == LocalFields(handler[u], ctx[u])
       IN  SendBulbUpdateToServer(
               Payload(f, SetOnModeId(value), SetOnBrightness(value, f.brightness)))
    /\ IF impl = "bulb"
       THEN /\ handler' = [handler EXCEPT ![u].modeId = SetOnModeId(value)]
            /\ ctx' = ctx
       ELSE /\ ctx' = [ctx EXCEPT ![u].modeId = SetOnModeId(value)]
            /\ handler' = handler
    /\ lastOp' = [op |-> "setOn", uuid |-> u, value |-> value]
    /\ UNCHANGED <<sendsFailed, fetch, impl, phase, toRestore, accessories, registered,
                   discoveredCacheUUIDs, isDiscoveryInProgress, discPc,
                   syncInFlight, polls, calls>>

\* setBrightness(value) (tuolifebulb.ts:159-195, part_000:166-202).
\* sendBulbUpdateToServer returns an already resolved promise, so the write to
\* context.device.brightness after the await runs in the same turn of the
\* event loop, before any timer or fetch callback.
SetBrightness(u, value) ==
    /\ commands < MaxCommands
    /\ registered[u] > 0
    /\ HasHandler(u)
    /\ commands' = commands + 1
    /\ SendBulbUpdateToServer(
           Payload(LocalFields(handler[u], ctx[u]), SetBrightnessModeId, value))
    /\ handler' = IF impl = "bulb"
                  THEN [handler EXCEPT ![u].brightness = value]
                  ELSE handler
    /\ ctx' = [ctx EXCEPT ![u].brightness = value]
    /\ lastOp' = [op |-> "setBrightness", uuid |-> u, value |-> value]
    /\ UNCHANGED <<sendsFailed, fetch, impl, phase, toRestore, accessories, registered,
                   discoveredCacheUUIDs, isDiscoveryInProgress, discPc,
                   syncInFlight, polls, calls>>

\* a plugin that resets the brightness it holds when the POST fails
OnSendSettled_Rollback(ok, local) ==
    IF ~ok /\ "brightness" \in DOMAIN local
    THEN [local EXCEPT !.brightness = 0]
    ELSE local

\* What the plugin does to a record it holds when the POST settles: the promise
\* of fetch is dropped (platform.ts:236-242), no callback is attached to it, and
\* the catch clauses of setOn and setBrightness guard a call that has already
\* returned
OnSendSettled(ok, local) == local

\* The POST of a command settles, with a response (ok) or with an error
SendSettles(ok) ==
    /\ sendsPending > 0
    /\ sendsPending' = sendsPending - 1
    /\ sendsFailed' = IF ok THEN sendsFailed ELSE sendsFailed + 1
    /\ ctx' = [u \in Uuids |-> OnSendSettled(ok, ctx[u])]
    /\ handler' = [u \in Uuids |-> OnSendSettled(ok, handler[u])]
    /\ UNCHANGED <<fetch, impl, phase, toRestore, accessories, registered,
                   discoveredCacheUUIDs, isDiscoveryInProgress, discPc,
                   syncInFlight, polls, calls, commands, sends, lastPayload,
                   lastOp>>

Next ==
    \/ \E u \in Uuids : ConfigureAccessory(u)
    \/ DidFinishLaunching
    \/ \E devices \in DeviceLists : DiscoverResolves(devices)
    \/ TimerFires
    \/ \E devices \in DeviceLists : SyncResolves(devices)
    \/ \E u \in Uuids, value \in BOOLEAN : SetOn(u, value)
    \/ \E u \in Uuids, value \in UserLevels : SetBrightness(u, value)
    \/ \E ok \in BOOLEAN : SendSettles(ok)

Spec == Init /\ [][Next]_vars


(***************************************************************************)
(* registerDevices called directly, any number of times in a row: the      *)
(* method as a unit, over every cache the host may restore.                *)
(***************************************************************************)
RegisterDevicesCall(devices) ==
    /\ toRestore = {}
    /\ calls < MaxCalls
    /\ calls' = calls + 1
    /\ RegisterDevices(devices, "registerDevices")
    /\ UNCHANGED <<sendsFailed, fetch, impl, phase, toRestore, accessories, isDiscoveryInProgress,
                   discPc, syncInFlight, polls, commands, lastPayload>>

NextReconcile ==
    \/ \E u \in Uuids : ConfigureAccessory(u)
    \/ \E devices \in DeviceLists : RegisterDevicesCall(devices)

SpecReconcile == Init /\ [][NextReconcile]_vars

(***************************************************************************)
(* One call of getDevicesAndStatesFromServer, over every response.         *)
(***************************************************************************)
InitFetch ==
    /\ impl = "bulb"
    /\ phase = "launched"
    /\ ctx = [u \in Uuids |-> NoContext]
    /\ toRestore = {}
    /\ registered = [u \in Uuids |-> 0]
    /\ accessories = <<>>
    /\ handler = [u \in Uuids |-> NoHandler]
    /\ discoveredCacheUUIDs = <<>>
    /\ isDiscoveryInProgress = FALSE
    /\ discPc = "idle"
    /\ syncInFlight = 0
    /\ polls = 0
    /\ calls = 0
    /\ commands = 0
    /\ sends = 0
    /\ sendsPending = 0
    /\ sendsFailed = 0
    /\ lastPayload = NoPayload
    /\ lastOp = NoOp
    /\ \E response \in Responses : fetch = [pc |-> "fetching", response |-> response]

\* the GET settles with the response and the method runs to its return
FetchReturns ==
    /\ fetch.pc = "fetching"
    /\ fetch' = [pc |-> "returned", response |-> fetch.response,
                 result |-> GetDevicesAndStatesFromServer(fetch.response)]
    /\ UNCHANGED <<impl, phase, toRestore, accessories, ctx, handler, registered,
                   discoveredCacheUUIDs, isDiscoveryInProgress, discPc,
                   syncInFlight, polls, calls, commands, sends, sendsPending,
                   sendsFailed, lastPayload, lastOp>>

NextFetch == FetchReturns

SpecFetch == InitFetch /\ [][NextFetch]_vars

(***************************************************************************)
(* Vocabulary of the properties                                            *)
(***************************************************************************)
\* reconciliation passes awaiting their fetch
PassesInFlight == (IF discPc = "fetching" THEN 1 ELSE 0) + syncInFlight

\* this step completes the startup discovery pass
DiscoverCompletes == discPc = "fetching" /\ discPc' = "done"
\* this step completes a timer-triggered poll, the startup discovery being over
PollCompletes     == syncInFlight' = syncInFlight - 1 /\ discPc = "done"
PassCompletes     == DiscoverCompletes \/ PollCompletes

\* the latest step of the platform was the startup discovery pass, or a
\* timer-triggered poll that completed after it
LastIsPass == lastOp.op = "discover" \/ (lastOp.op = "sync" /\ discPc = "done")

\* device i of the list is the only one of the list with its bulbId
OnlyOneOf(devices, i) ==
    \A j \in 1..Len(devices) : devices[j].bulbId = devices[i].bulbId => j = i

(***************************************************************************)
(* C1: no uuid is handed to the host's registerPlatformAccessories while   *)
(* the host holds an accessory with that uuid: the host never holds more   *)
(* than one accessory per bulbId.                                          *)
(***************************************************************************)
C1_NeverRegisteredTwice == \A u \in Uuids : registered[u] <= 1

(***************************************************************************)
(* C2: registerDevices is idempotent: a second call in a row with the same *)
(* device list leaves the registered accessories, their brightness and     *)
(* power as the first call left them, and registers and unregisters        *)
(* nothing.                                                                *)
(***************************************************************************)
C2_ReconcileIdempotent ==
    [][(/\ calls' = calls + 1
        /\ lastOp.op = "registerDevices"
        /\ lastOp'.devices = lastOp.devices)
       => /\ registered' = registered
          /\ ctx' = ctx
          /\ handler' = handler
          /\ \A i \in 1..Len(lastOp'.events) : lastOp'.events[i][1] = "update"]_vars

(***************************************************************************)
(* C3: in every pass, an accessory known before the pass whose uuid is not *)
(* derived from a fetched device is unregistered and dropped from the      *)
(* accessory mapping; one whose uuid is derived from a fetched device      *)
(* stays registered and in the mapping.                                    *)
(***************************************************************************)
C3_StaleRemovedFreshKept ==
    [][PassCompletes =>
        \A u \in Uuids :
            SeqHas(accessories, u) =>
                IF u \in UuidsOf(lastOp'.devices)
                THEN /\ registered[u] > 0 => registered'[u] > 0
                     /\ SeqHas(accessories', u)
                ELSE /\ registered'[u] = 0
                     /\ ~SeqHas(accessories', u)]_vars

(***************************************************************************)
(* C4: after a pass, an accessory that existed before it and whose bulbId  *)
(* was fetched has the fetched brightness, and the host reads its power as *)
(* (fetched modeId # "off").                                               *)
(***************************************************************************)
C4_ExistingTakesFetchedState ==
    LastIsPass =>
        \A i \in 1..Len(lastOp.devices) :
            LET d == lastOp.devices[i]
                u == UuidGenerate(d.bulbId)
            IN  (~NoBulbId(d) /\ SeqHas(accessories, u) /\ OnlyOneOf(lastOp.devices, i))
                => /\ LocalBrightness(u) = d.brightness
                   /\ HostReadsOn(u) = (d.modeId # "off")

(***************************************************************************)
(* C5: at most one reconciliation pass (startup discovery or timer poll)   *)
(* awaits its fetch at any time.                                           *)
(***************************************************************************)
C5_AtMostOnePassInFlight == PassesInFlight <= 1

(***************************************************************************)
(* C6: once the discovery pass has completed, the reentrancy guard is      *)
(* released, so that a later discoverDevices is carried out.               *)
(***************************************************************************)
C6_GuardReleasedAfterPass == discPc = "done" => isDiscoveryInProgress = FALSE

(***************************************************************************)
(* C7: setOn(false) sends modeId "off" with brightness 5 upstream, sets    *)
(* the local modeId to "off", and the host reads the power as off from     *)
(* then on, whether the POST is still pending or has settled.              *)
(***************************************************************************)
C7_SetOnFalseTurnsOff ==
    (lastOp.op = "setOn" /\ lastOp.value = FALSE) =>
        /\ lastPayload.modeId = "off"
        /\ lastPayload.brightness = 5
        /\ LocalModeId(lastOp.uuid) = "off"
        /\ HostReadsOn(lastOp.uuid) = FALSE

\* setOn(false) has run on an accessory of brightness 80 and its POST is pending
C7_Witness ==
    /\ lastOp.op = "setOn"
    /\ lastOp.value = FALSE
    /\ sendsPending > 0
    /\ LocalBrightness(lastOp.uuid) = 80
    /\ lastPayload.brightness = 5
    /\ ~HostReadsOn(lastOp.uuid)

(***************************************************************************)
(* C8: setBrightness(level) on an accessory that is off leaves the local   *)
(* modeId at the "on" mode and the local brightness at level; the host     *)
(* then reads the power as on.                                             *)
(***************************************************************************)
C8_SetBrightnessTurnsOn ==
    [][\A u \in Uuids :
        (/\ commands' = commands + 1
         /\ lastOp'.op = "setBrightness"
         /\ lastOp'.uuid = u
         /\ LocalModeId(u) = "off")
        => /\ LocalModeId(u)' = "calm5"
           /\ LocalBrightness(u)' = lastOp'.value
           /\ HostReadsOn(u)']_vars

(***************************************************************************)
(* C9: a timer-triggered poll unregisters every registered accessory whose *)
(* bulbId is absent from the list it fetched.                              *)
(***************************************************************************)
C9_AbsentBulbUnregisteredByPoll ==
    [][PollCompletes =>
        \A u \in Uuids :
            (registered[u] > 0 /\ u \notin UuidsOf(lastOp'.devices))
                => registered'[u] = 0]_vars

(***************************************************************************)
(* C10: a bulb with a non-empty bulbId that has no accessory and appears   *)
(* in the list fetched by a timer-triggered poll after startup gets an     *)
(* accessory registered with the host in that poll.                        *)
(***************************************************************************)
C10_NewBulbRegisteredByPoll ==
    [][PollCompletes =>
        \A i \in 1..Len(lastOp'.devices) :
            LET d == lastOp'.devices[i]
                u == UuidGenerate(d.bulbId)
            IN  (~NoBulbId(d) /\ ctx[u] = NoContext)
                => /\ ctx'[u] # NoContext
                   /\ registered'[u] > 0]_vars

\* the try block of the fetch threw: the fetch rejected, the body was not JSON,
\* or a room or a device of the array was null
FetchFailed == fetch.pc = "returned" /\ TryBlock(fetch.response).thrown

(***************************************************************************)
(* C11: getDevicesAndStatesFromServer never lets an exception out: for     *)
(* every response it returns, and when the fetch or the parse failed it    *)
(* returns the empty list.                                                 *)
(***************************************************************************)
C11_FetcherNeverThrows ==
    fetch.pc = "returned" =>
        /\ ~fetch.result.propagated
        /\ FetchFailed => fetch.result.devices = <<>>

C11_Witness ==
    /\ FetchFailed
    /\ fetch.response = NetworkError
    /\ fetch.result.devices = <<>>
    /\ ~fetch.result.propagated

\* the body is JSON but not an array
NotAnArray ==
    fetch.pc = "returned" /\ fetch.response.kind = "json" /\ ~fetch.response.isArray

(***************************************************************************)
(* C12 as stated: when the body parses to JSON that is not an array the    *)
(* fetcher returns the empty list without raising and logs exactly one     *)
(* error.                                                                  *)
(***************************************************************************)
C12_NotArrayLogsOneError ==
    NotAnArray =>
        /\ fetch.result.devices = <<>>
        /\ ~fetch.result.propagated
        /\ fetch.result.errors = 1

(***************************************************************************)
(* C12 amended: when the body parses to JSON that is not an array the      *)
(* fetcher returns the empty list without raising and logs two errors,     *)
(* the message and the response.                                           *)
(***************************************************************************)
C12_NotArrayLogsTwoErrors ==
    NotAnArray =>
        /\ fetch.result.devices = <<>>
        /\ ~fetch.result.propagated
        /\ fetch.result.errors = 2

C12_Witness ==
    /\ NotAnArray
    /\ fetch.response = JsonOther("object")
    /\ fetch.result.devices = <<>>
    /\ fetch.result.errors = 2

(***************************************************************************)
(* C13: a fetched device whose bulbId is empty or missing is discarded by  *)
(* the startup discovery and by the timer poll alike: no pass hands an     *)
(* empty or missing bulbId to uuid.generate.                               *)
(***************************************************************************)
C13_NoUuidFromMissingBulbId ==
    LastIsPass =>
        \A i \in 1..Len(lastOp.derived) :
            lastOp.derived[i] # "" /\ lastOp.derived[i] # Undefined

\* a pass of either kind runs its loop
AnyPassCompletes == DiscoverCompletes \/ syncInFlight' = syncInFlight - 1

(***************************************************************************)
(* C14: projecting the fetched state never re-enters the command handlers: *)
(* no discovery or poll pass issues a POST or counts as a command, and the *)
(* POSTs issued never exceed the user's commands.                          *)
(***************************************************************************)
C14_PassesNeverSend ==
    /\ [](sends <= commands)
    /\ [][AnyPassCompletes => sends' = sends /\ commands' = commands]_vars

C14_Witness ==
    /\ impl = "context"
    /\ lastOp.op = "sync"
    /\ Len(lastOp.built) > 0
    /\ commands = 1
    /\ sends = 1

\* the POST of a command settles with an error
SendFails == sendsFailed' = sendsFailed + 1

(***************************************************************************)
(* C15: when the POST of a command fails, the local update the command     *)
(* made is kept: the failure changes neither the context nor the handler's *)
(* record of any accessory, and the command is not taken back.             *)
(***************************************************************************)
C15_FailedSendKeepsLocalUpdate ==
    [][SendFails => ctx' = ctx /\ handler' = handler /\ commands' = commands
                    /\ lastOp' = lastOp]_vars

C15_Witness ==
    /\ sendsFailed > 0
    /\ sendsPending = 0
    /\ lastOp.op = "setBrightness"
    /\ LocalBrightness(lastOp.uuid) = lastOp.value
    /\ ctx[lastOp.uuid].brightness = lastOp.value

C17_PowerDerivedFromContext ==
    \A u \in Uuids :
        (HasHandler(u) /\ ctx[u] # NoContext) =>
            HostReadsOn(u) = (ctx[u].modeId # "off")

(***************************************************************************)
(* C18: a pass that updates an existing accessory keeps its handlers: no   *)
(* new handler is constructed for an accessory of the Map that already has *)
(* one, and the handler serving it afterwards is the one that served it    *)
(* before.                                                                 *)
(***************************************************************************)
C18_UpdateKeepsHandlers ==
    [][AnyPassCompletes =>
          \A u \in Uuids :
              (SeqHas(accessories, u) /\ HasHandler(u)) =>
                  /\ ~SeqHas(lastOp'.built, u)
                  /\ LocalModeId(u)' = LocalModeId(u)]_vars

C20_LastWriterWins ==
    /\ lastOp.op = "setBrightness" =>
           /\ LocalBrightness(lastOp.uuid) = lastOp.value
           /\ ctx[lastOp.uuid].brightness = lastOp.value
    /\ lastOp.op = "sync" =>
           \A i \in 1..Len(lastOp.devices) :
               LET d == lastOp.devices[i]
                   u == UuidGenerate(d.bulbId)
               IN  (SeqHas(lastOp.built, u) /\ OnlyOneOf(lastOp.devices, i)) =>
                       /\ LocalBrightness(u) = d.brightness
                       /\ ctx[u].brightness = d.brightness

\* the user set 30 on the only accessory served, then a poll wrote 80
C20_Witness ==
    /\ lastOp.op = "sync"
    /\ commands = 1
    /\ lastPayload # NoPayload
    /\ lastPayload.brightness = 30
    /\ \E u \in Uuids :
          /\ \A w \in Uuids : HasHandler(w) <=> w = u
          /\ SeqHas(lastOp.built, u)
          /\ LocalBrightness(u) = 80

\* the host calls setOn on the accessory u
SetOnCalled(u) ==
    commands' = commands + 1 /\ lastOp'.op = "setOn" /\ lastOp'.uuid = u

(***************************************************************************)
(* C21: setOn sets the local brightness as well as the local modeId: after *)
(* setOn(false) the local brightness is 5, after setOn(true) it is what it *)
(* was, and the brightness sent upstream is the local brightness after the *)
(* call.                                                                   *)
(***************************************************************************)
C21_SetOnSetsLocalBrightness ==
    [][\A u \in Uuids :
          SetOnCalled(u) =>
              /\ LocalBrightness(u)' = IF lastOp'.value THEN LocalBrightness(u) ELSE 5
              /\ lastPayload'.brightness = LocalBrightness(u)']_vars

\* the latest thing that ran is a command of the user
LastIsCommand == lastOp.op = "setOn" \/ lastOp.op = "setBrightness"

(***************************************************************************)
(* C22: every command causes exactly one POST, and the snapshot it sends   *)
(* carries the groupId and the colour channels the accessory last stored   *)
(* for the bulb in its context, not constants.                             *)
(***************************************************************************)
C22_PayloadFromStoredFields ==
    /\ sends = commands
    /\ LastIsCommand =>
           LET c == ctx[lastOp.uuid]
           IN  /\ lastPayload.groupId = c.groupId
               /\ lastPayload.red = c.red
               /\ lastPayload.green = c.green
               /\ lastPayload.blue = c.blue
               /\ lastPayload.violet = c.violet
               /\ lastPayload.whiteColor = c.whiteColor

\* an event of a pass that creates or updates an accessory
IsMutation(e) == e[1] # "unregister"

\* the uuids of the events q, in order
EventUuids(q) == [i \in 1..Len(q) |-> q[i][2]]

\* the uuids of the devices of a list that carry a bulbId, in order
HasBulbId(d) == ~NoBulbId(d)
IdentifiedUuids(devices) ==
    LET kept == SelectSeq(devices, HasBulbId)
    IN  [i \in 1..Len(kept) |-> UuidGenerate(kept[i].bulbId)]

(***************************************************************************)
(* C23: within one registerDevices pass every create and update happens,   *)
(* in the order of the fetched devices, before the first unregistration;   *)
(* no removal lies between two mutations.                                  *)
(***************************************************************************)
C23_MutationsBeforeRemovals ==
    lastOp.op = "discover" =>
        /\ \A i, j \in 1..Len(lastOp.events) :
               (lastOp.events[i][1] = "unregister" /\ IsMutation(lastOp.events[j])) => j < i
        /\ EventUuids(SelectSeq(lastOp.events, IsMutation)) = IdentifiedUuids(lastOp.devices)

\* both cached accessories restored; b1 fetched twice, b2 not at all
C23_Witness ==
    /\ lastOp.op = "discover"
    /\ Len(lastOp.devices) = 2
    /\ Len(lastOp.events) = 3
    /\ lastOp.events[1][1] = "update"
    /\ lastOp.events[2][1] = "update"
    /\ lastOp.events[3][1] = "unregister"

\* the raw devices of an array of rooms, in order
RECURSIVE RawDevicesOf(_, _)
RawDevicesOf(rooms, i) ==
    IF i > Len(rooms) THEN <<>>
    ELSE (IF rooms[i].devKind = "array" THEN rooms[i].items ELSE <<>>)
             \o RawDevicesOf(rooms, i + 1)

\* a string field as documented: the value on the wire, the empty string when absent
DocumentedString(device, f, value) == IF f \in device.has THEN value ELSE ""

\* the fetch returned the mapped devices of an array of rooms
FetchMapped ==
    fetch.pc = "returned" /\ fetch.response.kind = "json" /\ fetch.response.isArray
        /\ ~FetchFailed

(***************************************************************************)
(* C24: normalizing a raw device gives every field absent on the wire its  *)
(* documented default: modeId "off", the numeric fields 0, isAvailable     *)
(* false, and the string fields groupId, userId, deviceId,                 *)
(* firmwareVersion, nickname and bulbId the empty string; a field present  *)
(* on the wire keeps its value, bulb_ID becoming bulbId.                   *)
(***************************************************************************)
C24_AbsentFieldsGetDefaults ==
    FetchMapped =>
        LET raw == RawDevicesOf(fetch.response.rooms, 1)
            out == fetch.result.devices
        IN  /\ Len(out) = Len(raw)
            /\ \A k \in 1..Len(raw) :
                   /\ out[k].bulbId = DocumentedString(raw[k], "bulb_ID", raw[k].bulb_ID)
                   /\ out[k].groupId = DocumentedString(raw[k], "groupId", raw[k].groupId)
                   /\ out[k].nickname = DocumentedString(raw[k], "nickname", raw[k].nickname)
                   /\ out[k].userId = DocumentedString(raw[k], "userId", raw[k].userId)
                   /\ out[k].deviceId = DocumentedString(raw[k], "deviceId", raw[k].deviceId)
                   /\ out[k].firmwareVersion =
                          DocumentedString(raw[k], "firmwareVersion", raw[k].firmwareVersion)
                   /\ out[k].modeId = OrStr(raw[k], "modeId", raw[k].modeId, "off")
                   /\ out[k].isAvailable = OrBool(raw[k], "isAvailable", raw[k].isAvailable, FALSE)
                   /\ out[k].brightness = OrNum(raw[k], "brightness", raw[k].brightness, 0)
                   /\ out[k].red = OrNum(raw[k], "red", raw[k].red, 0)
                   /\ out[k].green = OrNum(raw[k], "green", raw[k].green, 0)
                   /\ out[k].blue = OrNum(raw[k], "blue", raw[k].blue, 0)
                   /\ out[k].violet = OrNum(raw[k], "violet", raw[k].violet, 0)
                   /\ out[k].whiteColor = OrNum(raw[k], "whiteColor", raw[k].whiteColor, 0)

\* the fields of a context.device that a pass has no business with
FrameOf(c) ==
    [bulbId |-> c.bulbId, groupId |-> c.groupId, nickname |-> c.nickname,
     red |-> c.red, green |-> c.green, blue |-> c.blue, violet |-> c.violet,
     whiteColor |-> c.whiteColor]

(***************************************************************************)
(* C25: a discovery or poll pass that updates an existing accessory leaves *)
(* its identity and the bulbId, groupId, nickname and colour channels of   *)
(* its context as they were, whatever the fetched device carries: the      *)
(* accessory stays under its uuid and in the Map.                          *)
(***************************************************************************)
C25_UpdateChangesOnlyBrightnessAndPower ==
    [][AnyPassCompletes =>
          /\ accessories' = accessories
          /\ \A u \in Uuids :
                 SeqHas(accessories, u) =>
                     /\ ctx'[u] # NoContext
                     /\ FrameOf(ctx'[u]) = FrameOf(ctx[u])
                     /\ UuidGenerate(ctx'[u].bulbId) = u]_vars

\* a poll wrote the fetched brightness into a cached accessory, whose other
\* fields differ from the fetched device's
C25_Witness ==
    /\ lastOp.op = "sync"
    /\ discPc = "done"
    /\ \E u \in Uuids :
          /\ SeqHas(lastOp.built, u)
          /\ ctx[u].brightness = 80
          /\ ctx[u].nickname = "Old"
          /\ ctx[u].groupId = "g0"
          /\ ctx[u].red = 1

====
